---- MODULE Spec2Model ----
(***************************************************************************)
(* Order fulfilment of the fortune-report bot: the order store, the        *)
(* payment webhook, the free checkout shortcut, the payment-timeout sweep  *)
(* and OrderProcessor.process_paid_order with its refund and commission    *)
(* side effects.                                                           *)
(*                                                                         *)
(* Money is in cents.  Every database transaction of the code is one step  *)
(* of the model.  The bot process and the webhook server are two operating *)
(* system processes sharing one database: steps of different processes     *)
(* interleave freely, steps of one process interleave only where the code  *)
(* awaits (asyncio runs one coroutine at a time).                          *)
(***************************************************************************)
EXTENDS Integers, Sequences, FiniteSets, TLC

(* ------------------------------ bounds -------------------------------- *)
\* number of process_paid_order executions that may be started in a behaviour
MaxExec == 2

\* the order rows of the store
Orders == {1}
Execs == 1..MaxExec

(* --------------------------- configuration ----------------------------- *)
\* bot/config/products.py PRODUCTS: price in cents and requires_bazi
PRODUCTS ==
  [id \in 1..6 |->
     CASE id = 1 -> [price_usd |-> 0,    requires_bazi |-> FALSE]
       [] id = 2 -> [price_usd |-> 499,  requires_bazi |-> FALSE]
       [] id = 3 -> [price_usd |-> 999,  requires_bazi |-> FALSE]
       [] id = 4 -> [price_usd |-> 999,  requires_bazi |-> FALSE]
       [] id = 5 -> [price_usd |-> 2999, requires_bazi |-> TRUE]
       [] OTHER  -> [price_usd |-> 1999, requires_bazi |-> FALSE]]

NoProduct == [price_usd |-> -1, requires_bazi |-> FALSE]

get_product(product_id) ==
  IF product_id \in DOMAIN PRODUCTS THEN PRODUCTS[product_id] ELSE NoProduct

\* the products the modelled orders are drawn from: the free one, a paid one
\* without enrichment and the one that requires enrichment
OrderProducts == {1, 2, 5}

\* AffiliateService.COMMISSION_TIERS in cents; max_sales -1 stands for infinity
COMMISSION_TIERS ==
  << [min_sales |-> 0,      max_sales |-> 100000, rate |-> 20],
     [min_sales |-> 100100, max_sales |-> 300000, rate |-> 25],
     [min_sales |-> 300100, max_sales |-> 500000, rate |-> 30],
     [min_sales |-> 500100, max_sales |-> -1,     rate |-> 35] >>

BONUS_THRESHOLD == 800000
BONUS_AMOUNT == 50000

InTier(t, sales) ==
  /\ COMMISSION_TIERS[t].min_sales <= sales
  /\ (COMMISSION_TIERS[t].max_sales = -1 \/ sales < COMMISSION_TIERS[t].max_sales)

\* the loop "for tier in COMMISSION_TIERS: if min <= sales < max: ...; break"
\* with its default when no band matches
TierOf(sales) ==
  IF \E t \in 1..Len(COMMISSION_TIERS) : InTier(t, sales)
  THEN CHOOSE t \in 1..Len(COMMISSION_TIERS) :
         InTier(t, sales) /\ \A u \in 1..(t - 1) : ~InTier(u, sales)
  ELSE 1

RateOf(sales) ==
  IF \E t \in 1..Len(COMMISSION_TIERS) : InTier(t, sales)
  THEN COMMISSION_TIERS[TierOf(sales)].rate
  ELSE 20

\* a value of hundredths of a cent stored in a Numeric(10, 2) column
RoundCents(x) == (x + 50) \div 100

\* calculate_commission with the rate of the band the new total falls in
calculate_commission_RateOfNewSales(total_sales, order_amount) ==
  LET new_total_sales == total_sales + order_amount
      commission_rate == RateOf(new_total_sales)
      bonus == IF new_total_sales >= BONUS_THRESHOLD /\ total_sales < BONUS_THRESHOLD
               THEN BONUS_AMOUNT ELSE 0
  IN [commission_rate   |-> commission_rate,
      commission_amount |-> order_amount * commission_rate,
      total_commission  |-> order_amount * commission_rate + 100 * bonus,
      bonus             |-> bonus,
      new_total_sales   |-> new_total_sales,
      new_tier          |-> TierOf(total_sales)]

\* calculate_commission with the bonus granted whenever the new total is at
\* or past the threshold
calculate_commission_BonusPastThreshold(total_sales, order_amount) ==
  LET commission_rate == RateOf(total_sales)
      new_total_sales == total_sales + order_amount
      bonus == IF new_total_sales >= BONUS_THRESHOLD THEN BONUS_AMOUNT ELSE 0
  IN [commission_rate   |-> commission_rate,
      commission_amount |-> order_amount * commission_rate,
      total_commission  |-> order_amount * commission_rate + 100 * bonus,
      bonus             |-> bonus,
      new_total_sales   |-> new_total_sales,
      new_tier          |-> TierOf(total_sales)]

calculate_commission(total_sales, order_amount) ==
  LET commission_rate == RateOf(total_sales)
      new_total_sales == total_sales + order_amount
      bonus == IF new_total_sales >= BONUS_THRESHOLD /\ total_sales < BONUS_THRESHOLD
               THEN BONUS_AMOUNT ELSE 0
  IN [commission_rate   |-> commission_rate,
      commission_amount |-> order_amount * commission_rate,
      total_commission  |-> order_amount * commission_rate + 100 * bonus,
      bonus             |-> bonus,
      new_total_sales   |-> new_total_sales,
      new_tier          |-> TierOf(total_sales)]

(* ------------------------------- state -------------------------------- *)
VARIABLES
  orders,     \* the orders table: order id -> row
  affiliate,  \* the referral account the orders' affiliate_code names
  mock_mode,  \* settings.PINGPONG_USE_MOCK
  ex,         \* the process_paid_order executions: locals, position, calls made
  applied,    \* history: times the account's totals were raised for an order
  paidgen,    \* history: times an order was set to `paid`
  call,       \* single service calls: the last call with its arguments and
              \* result, and the update_affiliate_sales calls under way
  users       \* the users table: the row of the one user who orders

vars == <<orders, affiliate, mock_mode, ex, applied, paidgen, call, users>>

\* error_message is kept as NULL ("none") or set: the text is not modelled
Msg(text) == "set"

Statuses ==
  {"pending_payment", "paid", "generating", "completed", "failed", "refunded"}

\* An order row as the checkout flow inserts it (PaymentService.create_order):
\* pending_payment, the amount is the product's price, the commission is the
\* one frozen from the account's sales at creation (0 stands for NULL), the
\* affiliate_code is the code of the account ("none" stands for NULL).
NewOrder(product_id, birthday, referred) ==
  [status            |-> "pending_payment",
   product_id        |-> product_id,
   amount_usd        |-> get_product(product_id).price_usd,
   birthday          |-> birthday,
   affiliate_code    |-> IF referred THEN "A" ELSE "none",
   commission_amount |-> IF referred
                         THEN RoundCents(calculate_commission(
                                0, get_product(product_id).price_usd).total_commission)
                         ELSE 0,
   payment_id        |-> FALSE,
   bazi_data         |-> FALSE,
   ai_report         |-> FALSE,
   error_message     |-> "none"]

\* The rows the store starts with: user_input carries a birthday or not only
\* matters for the product that requires enrichment; the free order's
\* commission is zero with a referral or without, the paid orders carry the
\* commission frozen for their referrer.
OrderRows ==
  { NewOrder(p, b, r) : p \in OrderProducts, b \in BOOLEAN, r \in BOOLEAN }

InitialRows ==
  { row \in OrderRows :
      /\ ((~get_product(row.product_id).requires_bazi /\ row.amount_usd > 0) => row.birthday)
      /\ (row.commission_amount = 0 <=> row.amount_usd = 0) }

\* the two operating system processes: the bot and the webhook server
Processes == {"bot", "web"}

IdleUpdate == [pc |-> "idle", order_amount |-> 0, commission_amount |-> 0,
               total_sales |-> 0, total_commission |-> 0]

NoCall == [last |-> [op |-> "none"], upd |-> [h \in Processes |-> IdleUpdate], n |-> 0]

IdleExec ==
  [pc |-> "idle", oid |-> 0, host |-> "none", caller |-> "none", ret |-> "none",
   seen |-> 0, passed |-> FALSE, enrich_result |-> "unset", gen_result |-> "unset",
   left |-> "none", log |-> << >>]

\* A row of the users table as start_command inserts it (handlers/start.py):
\* referred_by is the referral code of the first /start, "none" stands for NULL
NewUser(referred_by) == [exists |-> TRUE, referred_by |-> referred_by]

\* no row for this Telegram id
NoUser == [exists |-> FALSE, referred_by |-> "none"]

Init ==
  /\ orders \in [Orders -> InitialRows]
  /\ affiliate = [total_sales |-> 0, total_commission |-> 0, current_tier |-> 1]
  /\ mock_mode \in BOOLEAN
  /\ ex = [e \in Execs |-> IdleExec]
  /\ applied = [o \in Orders |-> 0]
  /\ paidgen = [o \in Orders |-> 0]
  /\ call = NoCall
  /\ users = NewUser(orders[CHOOSE o \in Orders : TRUE].affiliate_code)

(* --------------------------- scheduling ------------------------------- *)
\* positions an execution reaches and leaves without an await in between
SyncPcs ==
  {"claim", "missing", "save_bazi", "ef_mark", "ef_refund", "gf_mark",
   "gf_refund", "apply", "commit", "handler", "wrap"}

HoldsLoop(e) ==
  \/ ex[e].pc \in SyncPcs
  \/ ex[e].pc = "start" /\ ex[e].caller = "mock"

\* the event loop of process h is inside a coroutine other than e
Busy(h, e) == \E f \in Execs \ {e} : ex[f].host = h /\ HoldsLoop(f)

CanStep(e) == ~Busy(ex[e].host, e)

FreeSlots == { e \in Execs : ex[e].pc = "idle" }
NextSlot == CHOOSE e \in FreeSlots : \A f \in FreeSlots : e <= f

Spawn(o, h, c) ==
  ex' = [ex EXCEPT ![NextSlot] =
           [IdleExec EXCEPT !.pc = "start", !.oid = o, !.host = h, !.caller = c]]

\* an execution that is over keeps its result, whether it passed the claim,
\* what the two clients answered, the status it last wrote and the calls it made
Done(r) ==
  [r EXCEPT !.pc = "done", !.host = "none", !.caller = "none", !.seen = 0]

\* process_paid_order returns (or re-raises) to its caller; only the caller of
\* the free path acts on the result
Finish(r, retval) ==
  IF r.caller = "free" /\ retval # "true"
  THEN [r EXCEPT !.ret = retval, !.pc = "wrap"]
  ELSE Done([r EXCEPT !.ret = retval])

Emit(r, events) == [r EXCEPT !.log = r.log \o events]

(* ------------------- triggers and other writers ----------------------- *)
\* PaymentService.process_payment_webhook with a verified signature and
\* status "paid", followed by the webhook route's trigger_order_processing.
\* The provider only knows orders that got a payment link (amount > 0).
WebhookPaid(o) ==
  /\ FreeSlots # {}
  /\ ~Busy("web", 0)
  /\ orders[o].amount_usd > 0
  /\ orders' = [orders EXCEPT ![o].status = "paid", ![o].payment_id = TRUE]
  /\ paidgen' = [paidgen EXCEPT ![o] = @ + 1]
  /\ Spawn(o, "web", "webhook")
  /\ UNCHANGED <<affiliate, mock_mode, applied, call, users>>

\* process_payment_webhook with status "failed" or "cancelled"
WebhookFailed(o, payment_status) ==
  /\ ~Busy("web", 0)
  /\ orders[o].amount_usd > 0
  /\ orders' = [orders EXCEPT ![o].status = "failed",
                              ![o].error_message = Msg(payment_status)]
  /\ orders' # orders
  /\ UNCHANGED <<affiliate, mock_mode, ex, applied, paidgen, call, users>>

\* confirm_order_callback for a free product: the order is marked paid and
\* process_order_with_error_handling is started as a background task
FreeCheckout(o) ==
  /\ FreeSlots # {}
  /\ ~Busy("bot", 0)
  /\ orders[o].status = "pending_payment"
  /\ orders[o].amount_usd = 0
  /\ orders' = [orders EXCEPT ![o].status = "paid"]
  /\ paidgen' = [paidgen EXCEPT ![o] = @ + 1]
  /\ Spawn(o, "bot", "free")
  /\ UNCHANGED <<affiliate, mock_mode, applied, call, users>>

\* PaymentService.simulate_mock_payment(status = "paid"): the webhook
\* processing and the start of process_paid_order run without an await
MockPaid(o) ==
  /\ mock_mode
  /\ FreeSlots # {}
  /\ ~Busy("bot", 0)
  /\ orders[o].amount_usd > 0
  /\ orders' = [orders EXCEPT ![o].status = "paid", ![o].payment_id = TRUE]
  /\ paidgen' = [paidgen EXCEPT ![o] = @ + 1]
  /\ Spawn(o, "bot", "mock")
  /\ UNCHANGED <<affiliate, mock_mode, applied, call, users>>

\* simulate_mock_payment(status = "failed")
MockFailed(o) ==
  /\ mock_mode
  /\ ~Busy("bot", 0)
  /\ orders[o].amount_usd > 0
  /\ orders' = [orders EXCEPT ![o].status = "failed",
                              ![o].error_message = Msg("mock_failed")]
  /\ orders' # orders
  /\ UNCHANGED <<affiliate, mock_mode, ex, applied, paidgen, call, users>>

\* PaymentService.check_payment_timeout: S are the pending orders older than
\* the 30 minute threshold when the sweep runs
CheckPaymentTimeout(S) ==
  /\ ~Busy("bot", 0)
  /\ S # {}
  /\ \A o \in S : orders[o].status = "pending_payment"
  /\ orders' = [o \in Orders |->
                  IF o \in S
                  THEN [orders[o] EXCEPT !.status = "failed",
                                         !.error_message = Msg("payment_timeout")]
                  ELSE orders[o]]
  /\ UNCHANGED <<affiliate, mock_mode, ex, applied, paidgen, call, users>>

\* PaymentService.refund_order: TRUE iff the refund is acknowledged.  In mock
\* mode resp = "fail" is the database error of the mock branch; in live mode
\* it is any answer other than a 200 with status "success".
RefundAccepted(row, resp) ==
  IF mock_mode THEN resp = "ok" ELSE row.payment_id /\ resp = "ok"

refund_order(row, reason, resp) ==
  IF RefundAccepted(row, resp)
  THEN [row EXCEPT !.status = "refunded",
                   !.error_message = IF mock_mode THEN Msg(reason) ELSE @]
  ELSE row

AuditEvent(ok) == IF ok THEN "audit:success" ELSE "audit:failed"

NotifyEvent(is_free_product) == IF is_free_product THEN "notify:free" ELSE "notify:paid"

(* ------------------ OrderProcessor.process_paid_order ------------------ *)
\* ClaimRead without the status check of lines 58-61
ClaimRead_NoCheck(e) ==
  /\ ex[e].pc = "start"
  /\ CanStep(e)
  /\ ex' = [ex EXCEPT ![e].pc = "claim", ![e].seen = paidgen[ex[e].oid]]
  /\ UNCHANGED <<orders, affiliate, mock_mode, applied, paidgen, call, users>>

\* lines 52-61: load the order and check its status; the user row of an
\* order always exists (orders.user_id is a foreign key, users are never
\* deleted), so the branch of lines 72-77 is not taken
ClaimRead(e) ==
  /\ ex[e].pc = "start"
  /\ CanStep(e)
  /\ LET o == ex[e].oid IN
       IF orders[o].status # "paid"
       THEN ex' = [ex EXCEPT ![e] = Finish(@, "false")]
       ELSE ex' = [ex EXCEPT ![e].pc = "claim", ![e].seen = paidgen[o]]
  /\ UNCHANGED <<orders, affiliate, mock_mode, applied, paidgen, call, users>>

\* AfterClaim with the enrichment called for every product
AfterClaim_AlwaysEnrich(row) == "enrich"

\* where the execution goes once the claim is committed (lines 92-135, 223)
AfterClaim(row) ==
  LET product == get_product(row.product_id) IN
    IF product.requires_bazi
    THEN IF row.birthday THEN "enrich" ELSE "missing"
    ELSE "gen"

\* lines 85-86: order.status = "generating"; db.commit()
ClaimCommit(e, dbok) ==
  /\ ex[e].pc = "claim"
  /\ CanStep(e)
  /\ LET o == ex[e].oid IN
       IF dbok
       THEN /\ orders' = [orders EXCEPT ![o].status = "generating"]
            /\ ex' = [ex EXCEPT ![e].pc = AfterClaim(orders[o]), ![e].passed = TRUE,
                                 ![e].left = "generating"]
       ELSE /\ orders' = orders
            /\ ex' = [ex EXCEPT ![e].pc = "handler"]
  /\ UNCHANGED <<affiliate, mock_mode, applied, paidgen, call, users>>

\* lines 124-132: no birthday in the stored input
MissingBirthday(e, dbok) ==
  /\ ex[e].pc = "missing"
  /\ CanStep(e)
  /\ LET o == ex[e].oid IN
       IF dbok
       THEN /\ orders' = [orders EXCEPT ![o].status = "failed",
                                        ![o].error_message = Msg("missing_birthday")]
            /\ ex' = [ex EXCEPT ![e] = Finish([@ EXCEPT !.left = "failed"], "false")]
       ELSE /\ orders' = orders
            /\ ex' = [ex EXCEPT ![e].pc = "handler"]
  /\ UNCHANGED <<affiliate, mock_mode, applied, paidgen, call, users>>

\* lines 135-142: bazi_service.get_bazi_data returns data, returns None after
\* its own retries, or raises
EnrichCall(e, result) ==
  /\ ex[e].pc = "enrich"
  /\ CanStep(e)
  /\ ex' = [ex EXCEPT ![e] =
              [Emit(@, <<"enrich">>) EXCEPT
                 !.enrich_result = result,
                 !.pc = CASE result = "data" -> "save_bazi"
                          [] result = "none" -> "ef_mark"
                          [] OTHER           -> "handler"]]
  /\ UNCHANGED <<orders, affiliate, mock_mode, applied, paidgen, call, users>>

\* lines 154-159: enrichment failed, mark the order failed
EfMark(e, dbok) ==
  /\ ex[e].pc = "ef_mark"
  /\ CanStep(e)
  /\ LET o == ex[e].oid IN
       IF dbok
       THEN /\ orders' = [orders EXCEPT ![o].status = "failed",
                                        ![o].error_message = Msg("bazi_failed")]
            /\ ex' = [ex EXCEPT ![e].pc = "ef_refund", ![e].left = "failed"]
       ELSE /\ orders' = orders
            /\ ex' = [ex EXCEPT ![e].pc = "handler"]
  /\ UNCHANGED <<affiliate, mock_mode, applied, paidgen, call, users>>

\* EfRefund without the refund call of lines 161-165: the failure is notified
\* to the user and the order stays failed
EfRefund_NoRefund(e, resp) ==
  /\ ex[e].pc = "ef_refund"
  /\ CanStep(e)
  /\ ex' = [ex EXCEPT ![e].pc = "ef_notify"]
  /\ UNCHANGED <<orders, affiliate, mock_mode, applied, paidgen, call, users>>

\* lines 161-203: refund, audit entry, then the user notification (refund
\* accepted) or the operator notification and the return (refund refused)
EfRefund(e, resp) ==
  /\ ex[e].pc = "ef_refund"
  /\ CanStep(e)
  /\ LET o  == ex[e].oid
         ok == RefundAccepted(orders[o], resp)
     IN /\ orders' = [orders EXCEPT ![o] = refund_order(@, "refund_mock_bazi", resp)]
        /\ ex' = [ex EXCEPT ![e] =
                    IF ok
                    THEN [Emit(@, <<"refund:bazi", AuditEvent(ok)>>) EXCEPT
                            !.pc = "ef_notify", !.left = "refunded"]
                    ELSE Finish(Emit(@, <<"refund:bazi", AuditEvent(ok), "admin">>), "false")]
  /\ UNCHANGED <<affiliate, mock_mode, applied, paidgen, call, users>>

\* lines 185-193 and 205: the awaited failure notification, then return False
EfNotify(e) ==
  /\ ex[e].pc = "ef_notify"
  /\ CanStep(e)
  /\ ex' = [ex EXCEPT ![e] = Finish(Emit(@, <<NotifyEvent(FALSE)>>), "false")]
  /\ UNCHANGED <<orders, affiliate, mock_mode, applied, paidgen, call, users>>

\* lines 208-214: persist the enrichment payload
SaveBazi(e, dbok) ==
  /\ ex[e].pc = "save_bazi"
  /\ CanStep(e)
  /\ LET o == ex[e].oid IN
       IF dbok
       THEN /\ orders' = [orders EXCEPT ![o].bazi_data = TRUE]
            /\ ex' = [ex EXCEPT ![e].pc = "gen"]
       ELSE /\ orders' = orders
            /\ ex' = [ex EXCEPT ![e].pc = "handler"]
  /\ UNCHANGED <<affiliate, mock_mode, applied, paidgen, call, users>>

\* where the execution goes with the outcome of the generation: line 301
\* (no report) or the completion of lines 362-383, where the account is
\* updated for an order that carries a commission (line 370)
AfterGeneration(result, row) ==
  IF result = "report"
  THEN IF row.commission_amount # 0 /\ row.amount_usd # 0
       THEN "apply" ELSE "commit"
  ELSE "gf_notify"

\* lines 282-300: ai_service.generate_report under asyncio.wait_for; a None
\* result, the overall timeout and any exception all leave report = None
GenCall(e, result) ==
  /\ ex[e].pc = "gen"
  /\ CanStep(e)
  /\ LET o == ex[e].oid IN
       ex' = [ex EXCEPT ![e] =
                [Emit(@, <<"gen">>) EXCEPT
                   !.gen_result = result,
                   !.pc = AfterGeneration(result, orders[o])]]
  /\ UNCHANGED <<orders, affiliate, mock_mode, applied, paidgen, call, users>>

\* lines 306-311: the awaited failure notification, sent before anything else;
\* is_free_product comes from the amount read at the claim
GfNotify(e) ==
  /\ ex[e].pc = "gf_notify"
  /\ CanStep(e)
  /\ LET o == ex[e].oid IN
       ex' = [ex EXCEPT ![e] =
                [Emit(@, <<NotifyEvent(orders[o].amount_usd = 0)>>) EXCEPT !.pc = "gf_mark"]]
  /\ UNCHANGED <<orders, affiliate, mock_mode, applied, paidgen, call, users>>

GenErrorMessage(result) ==
  CASE result = "timeout" -> "gen_timeout"
    [] result = "error"   -> "gen_error"
    [] OTHER              -> "gen_failed"

\* GfMark without the amount test of line 322: the refund is called for
\* every order
GfMark_AlwaysRefund(e, dbok) ==
  /\ ex[e].pc = "gf_mark"
  /\ CanStep(e)
  /\ LET o == ex[e].oid IN
       IF dbok
       THEN /\ orders' = [orders EXCEPT ![o].status = "failed",
                                        ![o].error_message = Msg(GenErrorMessage(ex[e].gen_result))]
            /\ ex' = [ex EXCEPT ![e].pc = "gf_refund", ![e].left = "failed",
                                 ![e].gen_result = "none"]
       ELSE /\ orders' = orders
            /\ ex' = [ex EXCEPT ![e].pc = "handler", ![e].gen_result = "none"]
  /\ UNCHANGED <<affiliate, mock_mode, applied, paidgen, call, users>>

\* lines 314-319, and for a free order lines 351-359
GfMark(e, dbok) ==
  /\ ex[e].pc = "gf_mark"
  /\ CanStep(e)
  /\ LET o == ex[e].oid IN
       IF dbok
       THEN /\ orders' = [orders EXCEPT ![o].status = "failed",
                                        ![o].error_message = Msg(GenErrorMessage(ex[e].gen_result))]
            /\ ex' = [ex EXCEPT ![e] =
                        IF orders[o].amount_usd > 0
                        THEN [@ EXCEPT !.pc = "gf_refund", !.left = "failed",
                                       !.gen_result = "none"]
                        ELSE Finish(Emit([@ EXCEPT !.left = "failed", !.gen_result = "none"],
                                         <<"admin">>), "false")]
       ELSE /\ orders' = orders
            /\ ex' = [ex EXCEPT ![e].pc = "handler", ![e].gen_result = "none"]
  /\ UNCHANGED <<affiliate, mock_mode, applied, paidgen, call, users>>

\* GfRefund with a refused refund raised out of the refund step instead of
\* being returned as False
GfRefund_Raises(e, resp) ==
  /\ ex[e].pc = "gf_refund"
  /\ CanStep(e)
  /\ LET o  == ex[e].oid
         ok == RefundAccepted(orders[o], resp)
     IN IF resp = "db_error"
        THEN /\ orders' = orders
             /\ ex' = [ex EXCEPT ![e].pc = "handler"]
        ELSE /\ orders' = [orders EXCEPT ![o] = refund_order(@, "refund_mock_gen", resp)]
             /\ ex' = [ex EXCEPT ![e] =
                         IF ok
                         THEN Finish(Emit([@ EXCEPT !.left = "refunded"],
                                          <<"refund:gen", AuditEvent(ok), "admin">>), "false")
                         ELSE [Emit(@, <<"refund:gen", AuditEvent(ok)>>) EXCEPT
                                 !.pc = "handler"]]
  /\ UNCHANGED <<affiliate, mock_mode, applied, paidgen, call, users>>

\* lines 322-359: refund of a paid order, audit entry, operator notification;
\* resp = "db_error" is the session of line 323 failing to open
GfRefund(e, resp) ==
  /\ ex[e].pc = "gf_refund"
  /\ CanStep(e)
  /\ LET o  == ex[e].oid
         ok == RefundAccepted(orders[o], resp)
     IN IF resp = "db_error"
        THEN /\ orders' = orders
             /\ ex' = [ex EXCEPT ![e].pc = "handler"]
        ELSE /\ orders' = [orders EXCEPT ![o] = refund_order(@, "refund_mock_gen", resp)]
             /\ ex' = [ex EXCEPT ![e] =
                         Finish(Emit([@ EXCEPT !.left = IF ok THEN "refunded" ELSE @],
                                     <<"refund:gen", AuditEvent(ok), "admin">>), "false")]
  /\ UNCHANGED <<affiliate, mock_mode, applied, paidgen, call, users>>

\* AffiliateService.update_affiliate_sales, called from lines 370-381 inside
\* the completion session; it commits in a session of its own.  ok = FALSE is
\* the exception it swallows.
update_affiliate_sales(acc, order_amount, commission_amount) ==
  [total_sales      |-> acc.total_sales + order_amount,
   total_commission |-> acc.total_commission + commission_amount,
   current_tier     |-> TierOf(acc.total_sales + order_amount)]

CompleteAffiliate(e, ok) ==
  /\ ex[e].pc = "apply"
  /\ CanStep(e)
  /\ LET o == ex[e].oid IN
       IF ok
       THEN /\ affiliate' = update_affiliate_sales(affiliate, orders[o].amount_usd,
                                                   orders[o].commission_amount)
            /\ applied' = [applied EXCEPT ![o] = @ + 1]
            /\ ex' = [ex EXCEPT ![e] = [Emit(@, <<"commission">>) EXCEPT !.pc = "commit"]]
       ELSE /\ UNCHANGED <<affiliate, applied>>
            /\ ex' = [ex EXCEPT ![e].pc = "commit"]
  /\ UNCHANGED <<orders, mock_mode, paidgen, call, users>>

\* lines 362-368 and 383: the report and the completed status are committed
CompleteCommit(e, dbok) ==
  /\ ex[e].pc = "commit"
  /\ CanStep(e)
  /\ LET o == ex[e].oid IN
       IF dbok
       THEN /\ orders' = [orders EXCEPT ![o].status = "completed", ![o].ai_report = TRUE]
            /\ ex' = [ex EXCEPT ![e] =
                        [Emit(@, <<"completed">>) EXCEPT !.pc = "deliver", !.left = "completed"]]
       ELSE /\ orders' = orders
            /\ ex' = [ex EXCEPT ![e].pc = "handler"]
  /\ UNCHANGED <<affiliate, mock_mode, applied, paidgen, call, users>>

\* lines 389-416: the order is read again and the report is sent; a send
\* error is swallowed, an error of the read goes to the handler
Deliver(e, result) ==
  /\ ex[e].pc = "deliver"
  /\ CanStep(e)
  /\ ex' = [ex EXCEPT ![e] =
              IF result = "db_error"
              THEN [@ EXCEPT !.pc = "handler"]
              ELSE Finish(Emit(@, <<"deliver">>), "true")]
  /\ UNCHANGED <<orders, affiliate, mock_mode, applied, paidgen, call, users>>

\* lines 418-446: the order is marked failed, the user is notified, the
\* exception is raised again; dbok = FALSE is the swallowed db_error
Handler(e, dbok) ==
  /\ ex[e].pc = "handler"
  /\ CanStep(e)
  /\ LET o == ex[e].oid IN
       IF dbok
       THEN /\ orders' = [orders EXCEPT ![o].status = "failed",
                                        ![o].error_message = Msg("processing_error")]
            /\ ex' = [ex EXCEPT ![e] =
                        Finish(Emit([@ EXCEPT !.left = "failed"],
                                    <<NotifyEvent(orders[o].amount_usd = 0)>>), "raised")]
       ELSE /\ orders' = orders
            /\ ex' = [ex EXCEPT ![e] = Finish(@, "raised")]
  /\ UNCHANGED <<affiliate, mock_mode, applied, paidgen, call, users>>

\* process_order_with_error_handling (handlers/payment.py 157-201), the
\* caller on the free path: a second notification when process_paid_order
\* returned False, failed + notification when it raised
FreeWrapper(e, dbok) ==
  /\ ex[e].pc = "wrap"
  /\ CanStep(e)
  /\ LET o == ex[e].oid
         notified == Emit(ex[e], <<IF orders[o].amount_usd = 0
                                   THEN "wrap_notify:free" ELSE "wrap_notify:paid">>)
     IN IF dbok
        THEN /\ orders' = IF ex[e].ret = "raised"
                          THEN [orders EXCEPT ![o].status = "failed",
                                              ![o].error_message = Msg("background_error")]
                          ELSE orders
             /\ ex' = [ex EXCEPT ![e] = Done(notified)]
        ELSE /\ orders' = orders
             /\ ex' = [ex EXCEPT ![e] = Done(@)]
  /\ UNCHANGED <<affiliate, mock_mode, applied, paidgen, call, users>>

(* --------------------------- specification ---------------------------- *)
Next ==
  \/ \E o \in Orders : WebhookPaid(o)
  \/ \E o \in Orders, st \in {"payment_failed", "payment_cancelled"} : WebhookFailed(o, st)
  \/ \E o \in Orders : FreeCheckout(o)
  \/ \E o \in Orders : MockPaid(o)
  \/ \E o \in Orders : MockFailed(o)
  \/ \E S \in SUBSET Orders : CheckPaymentTimeout(S)
  \/ \E e \in Execs : ClaimRead(e)
  \/ \E e \in Execs, dbok \in BOOLEAN : ClaimCommit(e, dbok)
  \/ \E e \in Execs, dbok \in BOOLEAN : MissingBirthday(e, dbok)
  \/ \E e \in Execs, r \in {"data", "none", "raise"} : EnrichCall(e, r)
  \/ \E e \in Execs, dbok \in BOOLEAN : EfMark(e, dbok)
  \/ \E e \in Execs, resp \in {"ok", "fail"} : EfRefund(e, resp)
  \/ \E e \in Execs : EfNotify(e)
  \/ \E e \in Execs, dbok \in BOOLEAN : SaveBazi(e, dbok)
  \/ \E e \in Execs, r \in {"report", "none", "timeout", "error"} : GenCall(e, r)
  \/ \E e \in Execs : GfNotify(e)
  \/ \E e \in Execs, dbok \in BOOLEAN : GfMark(e, dbok)
  \/ \E e \in Execs, resp \in {"ok", "fail", "db_error"} : GfRefund(e, resp)
  \/ \E e \in Execs, ok \in BOOLEAN : CompleteAffiliate(e, ok)
  \/ \E e \in Execs, dbok \in BOOLEAN : CompleteCommit(e, dbok)
  \/ \E e \in Execs, r \in {"sent", "send_error", "db_error"} : Deliver(e, r)
  \/ \E e \in Execs, dbok \in BOOLEAN : Handler(e, dbok)
  \/ \E e \in Execs, dbok \in BOOLEAN : FreeWrapper(e, dbok)

Spec == Init /\ [][Next]_vars

\* any step of execution e of process_paid_order or of its caller's wrapper
ExecStep(e) ==
  \/ ClaimRead(e)
  \/ \E dbok \in BOOLEAN : ClaimCommit(e, dbok)
  \/ \E dbok \in BOOLEAN : MissingBirthday(e, dbok)
  \/ \E r \in {"data", "none", "raise"} : EnrichCall(e, r)
  \/ \E dbok \in BOOLEAN : EfMark(e, dbok)
  \/ \E resp \in {"ok", "fail"} : EfRefund(e, resp)
  \/ EfNotify(e)
  \/ \E dbok \in BOOLEAN : SaveBazi(e, dbok)
  \/ \E r \in {"report", "none", "timeout", "error"} : GenCall(e, r)
  \/ GfNotify(e)
  \/ \E dbok \in BOOLEAN : GfMark(e, dbok)
  \/ \E resp \in {"ok", "fail", "db_error"} : GfRefund(e, resp)
  \/ \E ok \in BOOLEAN : CompleteAffiliate(e, ok)
  \/ \E dbok \in BOOLEAN : CompleteCommit(e, dbok)
  \/ \E r \in {"sent", "send_error", "db_error"} : Deliver(e, r)
  \/ \E dbok \in BOOLEAN : Handler(e, dbok)
  \/ \E dbok \in BOOLEAN : FreeWrapper(e, dbok)

\* utils/scheduler.py: the background task check_payment_timeouts runs the
\* sweep every five minutes over all the pending orders past the threshold
\* (cleanup_sessions, the other task, touches no order)
BackgroundSweep == CheckPaymentTimeout({o \in Orders : orders[o].status = "pending_payment"})

\* The processes do not crash: every coroutine that was started goes on
\* running, every awaited call returns, and the background task keeps
\* running.  Payments and notifications of the provider are not forced.
FairSpec ==
  /\ Spec
  /\ \A e \in Execs : WF_vars(ExecStep(e))
  /\ WF_vars(BackgroundSweep)

TypeOK ==
  /\ \A o \in Orders : orders[o].status \in Statuses
  /\ \A e \in Execs : ex[e].pc = "idle" \/ ex[e].oid \in Orders

(* ---------------- the services' operations called singly --------------- *)
\* calls of update_affiliate_sales started in a behaviour
MaxUpdates == 2

\* no row with this order id
NoRow == [NewOrder(1, FALSE, FALSE) EXCEPT !.status = "none"]

\* the stored rows the operations are called on
StoredRows ==
  { [NewOrder(2, TRUE, TRUE) EXCEPT !.status = st, !.payment_id = pid] :
      st \in Statuses, pid \in BOOLEAN } \cup {NoRow}

\* cumulative sales of the account, in cents: nothing, and the limits of the
\* bands and the bonus threshold with their neighbours, one of them an order
\* of the cheapest paid product below a value past the limit
SalesGrid ==
  {0} \cup UNION { {b + 50 - PRODUCTS[2].price_usd, b - 1, b, b + 50, b + 100} :
                    b \in {COMMISSION_TIERS[t].max_sales : t \in 1..3} \cup {BONUS_THRESHOLD} }

PaidProducts == {p \in DOMAIN PRODUCTS : PRODUCTS[p].price_usd > 0}

UnitInit ==
  /\ orders \in [Orders -> StoredRows]
  /\ affiliate \in {[total_sales |-> sales, total_commission |-> 0,
                      current_tier |-> TierOf(sales)] : sales \in SalesGrid}
  /\ mock_mode \in BOOLEAN
  /\ ex = [e \in Execs |-> IdleExec]
  /\ applied = [o \in Orders |-> 0]
  /\ paidgen = [o \in Orders |-> 0]
  /\ call = NoCall
  /\ users = NoUser

\* each behaviour applies one operation to a stored state, or runs the
\* account updates of the two processes
Uncalled == call.last.op = "none" /\ call.n = 0

\* AffiliateService.calculate_commission on the account's cumulative sales
CalculateCommission(order_amount) ==
  /\ Uncalled
  /\ call' = [call EXCEPT !.last =
                [op           |-> "calculate_commission",
                 total_sales  |-> affiliate.total_sales,
                 order_amount |-> order_amount,
                 result       |-> calculate_commission(affiliate.total_sales, order_amount)]]
  /\ UNCHANGED <<orders, affiliate, mock_mode, ex, applied, paidgen, users>>

\* Python truth of a nullable string: NULL ("none") and "" are false
Truthy(text) == text # "none" /\ text # ""

\* the code of the referral account, and the codes a caller can pass: NULL,
\* the account's code, and a code that names no account
AccountCode == "A"

OrderCodes == {"none", AccountCode, "X"}

\* AffiliateService.get_affiliate_by_code: whether a row carries the code
get_affiliate_by_code(affiliate_code) == affiliate_code = AccountCode

\* PaymentService.create_order for an existing user.  With an affiliate code
\* that names an account, line 77 evaluates Decimal(...), a name the module
\* never imports: the NameError is caught at line 107, no row is added and
\* None is returned.  With a code that names no account the row is added
\* carrying the code and no commission.
create_order(product_id, birthday, affiliate_code) ==
  IF Truthy(affiliate_code) /\ get_affiliate_by_code(affiliate_code)
  THEN [ok |-> FALSE, row |-> NoRow]
  ELSE [ok |-> TRUE,
        row |-> [NewOrder(product_id, birthday, FALSE)
                   EXCEPT !.affiliate_code = affiliate_code]]

CreateOrder(o, product_id, birthday, affiliate_code) ==
  /\ Uncalled
  /\ orders[o] = NoRow
  /\ LET created == create_order(product_id, birthday, affiliate_code) IN
       /\ orders' = [orders EXCEPT ![o] = created.row]
       /\ call' = [call EXCEPT !.last =
                     [op              |-> "create_order",
                      product_id      |-> product_id,
                      affiliate_code  |-> affiliate_code,
                      affiliate_found |-> get_affiliate_by_code(affiliate_code),
                      total_sales     |-> affiliate.total_sales,
                      ok              |-> created.ok,
                      row             |-> created.row]]
  /\ UNCHANGED <<affiliate, mock_mode, ex, applied, paidgen, users>>

\* PaymentService._generate_signature: a digest of the payload's items and
\* the webhook secret, kept as the tuple it is computed from
WebhookSecret == "webhook_secret"

generate_signature(payload, key) == <<payload.order_id, payload.status, key>>

verify_webhook_signature(payload, signature) ==
  signature = generate_signature(payload, WebhookSecret)

\* payloads: order_id 0 is a payload without order_id
Payloads ==
  [order_id : {0} \cup Orders, status : {"paid", "failed", "cancelled", "pending"}]

\* signatures sent with a payload: its own, one made with another key, and
\* the one of the same notification with status paid
SignaturesFor(payload) ==
  { generate_signature(payload, WebhookSecret),
    generate_signature(payload, "other_key"),
    generate_signature([payload EXCEPT !.status = "paid"], WebhookSecret) }

\* process_payment_webhook without the signature check of lines 302-304
process_payment_webhook_Unsigned(rows, payload, signature) ==
  IF payload.order_id = 0 \/ rows[payload.order_id] = NoRow
  THEN [ret |-> FALSE, orders |-> rows]
  ELSE IF payload.status = "paid"
       THEN [ret |-> TRUE,
             orders |-> [rows EXCEPT ![payload.order_id].status = "paid",
                                     ![payload.order_id].payment_id = TRUE]]
       ELSE [ret |-> FALSE, orders |-> rows]

\* PaymentService.process_payment_webhook: the result and the table after it
process_payment_webhook(rows, payload, signature) ==
  IF ~verify_webhook_signature(payload, signature)
  THEN [ret |-> FALSE, orders |-> rows]
  ELSE IF payload.order_id = 0
  THEN [ret |-> FALSE, orders |-> rows]
  ELSE IF rows[payload.order_id] = NoRow
  THEN [ret |-> FALSE, orders |-> rows]
  ELSE CASE payload.status = "paid" ->
              [ret |-> TRUE,
               orders |-> [rows EXCEPT ![payload.order_id].status = "paid",
                                       ![payload.order_id].payment_id = TRUE]]
         [] payload.status \in {"failed", "cancelled"} ->
              [ret |-> TRUE,
               orders |-> [rows EXCEPT ![payload.order_id].status = "failed",
                                       ![payload.order_id].error_message = Msg(payload.status)]]
         [] OTHER -> [ret |-> FALSE, orders |-> rows]

ProcessPaymentWebhook(payload, signature) ==
  /\ Uncalled
  /\ LET r == process_payment_webhook(orders, payload, signature) IN
       /\ orders' = r.orders
       /\ call' = [call EXCEPT !.last =
                     [op      |-> "process_payment_webhook",
                      payload |-> payload,
                      valid   |-> verify_webhook_signature(payload, signature),
                      ret     |-> r.ret,
                      before  |-> orders]]
  /\ UNCHANGED <<affiliate, mock_mode, ex, applied, paidgen, users>>

\* what the remote refund endpoint answers: 200 with status success, no
\* answer in 10 s, no connection, a status other than 200, 200 with another
\* status
RemoteResponses ==
  {"success", "timeout", "connection_error", "http_500", "no_success_status"}

\* whether refund_order posts to the endpoint (lines 382-407)
RemoteCalled(row) == ~mock_mode /\ row.payment_id

\* RefundAnswer with no answer within the timeout taken for a success
RefundAnswer_TimeoutIsSuccess(remote, dbok) ==
  IF mock_mode
  THEN IF dbok THEN "ok" ELSE "fail"
  ELSE IF remote \in {"success", "timeout"} /\ dbok THEN "ok" ELSE "fail"

\* the answer refund_order acts on: in mock mode the outcome of its own
\* update (lines 369-377), in live mode the endpoint's answer and, on
\* success, the outcome of the update of lines 413-418
RefundAnswer(remote, dbok) ==
  IF mock_mode
  THEN IF dbok THEN "ok" ELSE "fail"
  ELSE IF remote = "success" /\ dbok THEN "ok" ELSE "fail"

RefundOrder(o, remote, dbok) ==
  /\ Uncalled
  /\ orders[o] # NoRow
  /\ LET resp == RefundAnswer(remote, dbok) IN
       /\ orders' = [orders EXCEPT ![o] = refund_order(@, "service_failed", resp)]
       /\ call' = [call EXCEPT !.last =
                     [op            |-> "refund_order",
                      before        |-> orders[o],
                      remote        |-> remote,
                      dbok          |-> dbok,
                      remote_called |-> RemoteCalled(orders[o]),
                      ret           |-> RefundAccepted(orders[o], resp)]]
  /\ UNCHANGED <<affiliate, mock_mode, ex, applied, paidgen, users>>

\* update_affiliate_sales, lines 237-246: process h reads the account for an
\* order of product p with its frozen commission
UpdateSalesRead(h, p) ==
  /\ call.last.op = "none"
  /\ call.upd[h].pc = "idle"
  /\ call.n < MaxUpdates
  /\ call' = [call EXCEPT
                !.n = @ + 1,
                !.upd[h] = [pc                |-> "read",
                            order_amount      |-> NewOrder(p, TRUE, TRUE).amount_usd,
                            commission_amount |-> NewOrder(p, TRUE, TRUE).commission_amount,
                            total_sales       |-> affiliate.total_sales,
                            total_commission  |-> affiliate.total_commission]]
  /\ UNCHANGED <<orders, affiliate, mock_mode, ex, applied, paidgen, users>>

\* update_affiliate_sales, lines 248-260: the new totals, computed from the
\* values read, are written and committed
UpdateSalesWrite(h) ==
  /\ call.upd[h].pc = "read"
  /\ affiliate' = update_affiliate_sales(
                     [total_sales      |-> call.upd[h].total_sales,
                      total_commission |-> call.upd[h].total_commission,
                      current_tier     |-> affiliate.current_tier],
                     call.upd[h].order_amount, call.upd[h].commission_amount)
  /\ call' = [call EXCEPT !.upd[h] = IdleUpdate]
  /\ UNCHANGED <<orders, mock_mode, ex, applied, paidgen, users>>

UnitNext ==
  \/ \E a \in {PRODUCTS[p].price_usd : p \in PaidProducts} : CalculateCommission(a)
  \/ \E o \in Orders, p \in OrderProducts, b \in BOOLEAN, c \in OrderCodes :
       CreateOrder(o, p, b, c)
  \/ \E payload \in Payloads : \E signature \in SignaturesFor(payload) :
       ProcessPaymentWebhook(payload, signature)
  \/ \E o \in Orders, remote \in RemoteResponses, dbok \in BOOLEAN :
       RefundOrder(o, remote, dbok)
  \/ \E h \in Processes, p \in PaidProducts : UpdateSalesRead(h, p)
  \/ \E h \in Processes : UpdateSalesWrite(h)

UnitSpec == UnitInit /\ [][UnitNext]_vars

(* ----------------------- the two adapter clients ----------------------- *)
\* BaziService.timeout (seconds) and BaziService.max_retries
BaziService_timeout == 15
BaziService_max_retries == 2

\* AIService.max_retries; AIService.timeout and AIService.total_timeout are
\* settings (DEEPSEEK_API_TIMEOUT, default 60; DEEPSEEK_API_TOTAL_TIMEOUT,
\* default 240)
AIService_max_retries == 2
AIService_timeouts == {1, 60}
AIService_total_timeouts == {10, 240}

\* what one POST to the enrichment endpoint meets: 200 with a success code,
\* 200 with an error code, 200 with a body that is not JSON, a 5xx status,
\* another status, no answer within the timeout, aiohttp.ClientError, any
\* other exception
BaziResponses ==
  {"data", "business_error", "bad_json", "http_5xx", "http_4xx", "timeout",
   "connection_error", "unexpected"}

\* what one POST to the generation endpoint meets: 200 with content, 200
\* with JSON that holds no content, 200 with a body that is not JSON, ...
AIResponses ==
  {"content", "empty", "bad_json", "http_5xx", "http_4xx", "timeout",
   "connection_error", "unexpected"}

\* the pause before attempt number `attempt` (0 for the first)
wait_time(attempt) == IF attempt > 0 THEN 2 ^ (attempt - 1) ELSE 0

\* one attempt as the loop makes it
Attempt(attempt, timeout, response) ==
  [wait |-> wait_time(attempt), timeout |-> timeout, response |-> response]

\* BaziService.get_bazi_data, the loop of lines 73-180 from attempt number
\* `attempt` on: the attempts made and the data returned from inside the loop
\* ("data") or the loop left without data ("none")
RECURSIVE BaziLoop(_, _, _)
BaziLoop(responses, attempt, made) ==
  IF attempt > BaziService_max_retries
  THEN [attempts |-> made, result |-> "none"]
  ELSE LET r   == responses[attempt]
           now == Append(made, Attempt(attempt, BaziService_timeout, r))
       IN CASE r = "data" -> [attempts |-> now, result |-> "data"]
            [] r \in {"business_error", "bad_json", "http_4xx", "unexpected"} ->
                 [attempts |-> now, result |-> "none"]
            [] OTHER -> BaziLoop(responses, attempt + 1, now)

\* get_bazi_data: api_key is whether YUANFENJU_API_KEY is set, payload_ok
\* whether _build_request_payload accepted the birthday
get_bazi_data(api_key, payload_ok, responses) ==
  IF ~api_key
  THEN [attempts |-> << >>, result |-> IF mock_mode THEN "mock" ELSE "none"]
  ELSE IF ~payload_ok
  THEN [attempts |-> << >>, result |-> "none"]
  ELSE LET l == BaziLoop(responses, 0, << >>) IN
         IF l.result = "none" /\ mock_mode
         THEN [l EXCEPT !.result = "mock"]
         ELSE l

\* AIService.generate_report, the loop of lines 241-347
RECURSIVE AILoop(_, _, _, _)
\* AILoop with a 4xx status handled like a 5xx status
AILoop_ClientErrorRetried(base_timeout, responses, attempt, made) ==
  IF attempt > AIService_max_retries
  THEN [attempts |-> made, result |-> "none"]
  ELSE LET r   == responses[attempt]
           now == Append(made, Attempt(attempt, base_timeout * (2 ^ attempt), r))
       IN IF r = "content"
          THEN [attempts |-> now, result |-> "report"]
          ELSE AILoop(base_timeout, responses, attempt + 1, now)

AILoop(base_timeout, responses, attempt, made) ==
  IF attempt > AIService_max_retries
  THEN [attempts |-> made, result |-> "none"]
  ELSE LET r   == responses[attempt]
           attempt_timeout == base_timeout * (2 ^ attempt)
           now == Append(made, Attempt(attempt, attempt_timeout, r))
       IN CASE r = "content" -> [attempts |-> now, result |-> "report"]
            [] r \in {"http_4xx", "unexpected"} -> [attempts |-> now, result |-> "none"]
            [] r \in {"bad_json", "timeout", "connection_error"} ->
                 IF attempt >= AIService_max_retries
                 THEN [attempts |-> now, result |-> "none"]
                 ELSE AILoop(base_timeout, responses, attempt + 1, now)
            [] OTHER -> AILoop(base_timeout, responses, attempt + 1, now)

\* generate_report: api_key is whether DEEPSEEK_API_KEY is set
generate_report(api_key, base_timeout, responses) ==
  IF ~api_key
  THEN [attempts |-> << >>, result |-> "none"]
  ELSE AILoop(base_timeout, responses, 0, << >>)

\* order_processor.py lines 270-276: the budget of asyncio.wait_for
RECURSIVE dynamic_timeout_budget(_, _)
dynamic_timeout_budget(base_timeout, i) ==
  IF i > AIService_max_retries
  THEN 0
  ELSE base_timeout * (2 ^ i) + dynamic_timeout_budget(base_timeout, i + 1)

Max(a, b) == IF a >= b THEN a ELSE b

\* total_timeout with the configured value alone
total_timeout_ConfiguredOnly(configured_total_timeout, base_timeout) ==
  configured_total_timeout

\* total_timeout without the margin of line 274
total_timeout_NoMargin(configured_total_timeout, base_timeout) ==
  Max(configured_total_timeout, dynamic_timeout_budget(base_timeout, 0))

total_timeout(configured_total_timeout, base_timeout) ==
  Max(configured_total_timeout, dynamic_timeout_budget(base_timeout, 0) + 30)

\* the time generate_report has needed once the first n of its attempts are
\* over: the pauses, the whole timeout of an attempt that got no answer (an
\* answer takes no time), and the time `stall` during which the event loop
\* ran other work
RECURSIVE Elapsed(_, _, _)
Elapsed(attempts, n, stall) ==
  IF n = 0
  THEN stall
  ELSE Elapsed(attempts, n - 1, stall) + attempts[n].wait
         + (IF attempts[n].response = "timeout" THEN attempts[n].timeout ELSE 0)

Stalls == {0, 60}

\* lines 282-300: asyncio.wait_for(generate_report, total_timeout); the
\* report is None when the client returned None, when the budget elapsed
\* first (TimeoutError) and when the client raised
wait_for_generate_report(api_key, base_timeout, configured_total_timeout, responses, stall) ==
  LET g      == generate_report(api_key, base_timeout, responses)
      budget == total_timeout(configured_total_timeout, base_timeout)
      needed == Elapsed(g.attempts, Len(g.attempts), stall)
  IN [budget   |-> budget,
      needed   |-> needed,
      attempts |-> g.attempts,
      result   |-> IF needed > budget THEN "timeout" ELSE g.result]

AdapterInit ==
  /\ orders = [o \in Orders |-> NoRow]
  /\ affiliate = [total_sales |-> 0, total_commission |-> 0, current_tier |-> 1]
  /\ mock_mode \in BOOLEAN
  /\ ex = [e \in Execs |-> IdleExec]
  /\ applied = [o \in Orders |-> 0]
  /\ paidgen = [o \in Orders |-> 0]
  /\ call = NoCall
  /\ users = NoUser

GetBaziData(api_key, payload_ok, responses) ==
  /\ Uncalled
  /\ LET r == get_bazi_data(api_key, payload_ok, responses) IN
       call' = [call EXCEPT !.last =
                  [op         |-> "get_bazi_data",
                   api_key    |-> api_key,
                   payload_ok |-> payload_ok,
                   responses  |-> responses,
                   attempts   |-> r.attempts,
                   result     |-> r.result]]
  /\ UNCHANGED <<orders, affiliate, mock_mode, ex, applied, paidgen, users>>

GenerateReport(api_key, base_timeout, responses) ==
  /\ Uncalled
  /\ LET r == generate_report(api_key, base_timeout, responses) IN
       call' = [call EXCEPT !.last =
                  [op           |-> "generate_report",
                   api_key      |-> api_key,
                   base_timeout |-> base_timeout,
                   responses    |-> responses,
                   attempts     |-> r.attempts,
                   result       |-> r.result]]
  /\ UNCHANGED <<orders, affiliate, mock_mode, ex, applied, paidgen, users>>

\* process_paid_order lines 269-300 for an order of product p
WaitForGenerateReport(api_key, base_timeout, configured_total_timeout, responses, stall, p) ==
  /\ Uncalled
  /\ LET r == wait_for_generate_report(api_key, base_timeout, configured_total_timeout,
                                       responses, stall)
     IN
       call' = [call EXCEPT !.last =
                  [op           |-> "wait_for_generate_report",
                   base_timeout |-> base_timeout,
                   configured_total_timeout |-> configured_total_timeout,
                   budget       |-> r.budget,
                   needed       |-> r.needed,
                   attempts     |-> r.attempts,
                   result       |-> r.result,
                   product_id   |-> p,
                   next         |-> AfterGeneration(r.result, NewOrder(p, TRUE, TRUE))]]
  /\ UNCHANGED <<orders, affiliate, mock_mode, ex, applied, paidgen, users>>

AdapterNext ==
  \/ \E api_key, payload_ok \in BOOLEAN :
       \E responses \in [0..BaziService_max_retries -> BaziResponses] :
         GetBaziData(api_key, payload_ok, responses)
  \/ \E api_key \in BOOLEAN, base_timeout \in AIService_timeouts :
       \E responses \in [0..AIService_max_retries -> AIResponses] :
         GenerateReport(api_key, base_timeout, responses)
  \/ \E api_key \in BOOLEAN, base_timeout \in AIService_timeouts,
        configured \in AIService_total_timeouts, stall \in Stalls, p \in OrderProducts :
       \E responses \in [0..AIService_max_retries -> AIResponses] :
         WaitForGenerateReport(api_key, base_timeout, configured, responses, stall, p)

AdapterSpec == AdapterInit /\ [][AdapterNext]_vars

(* --------------- the referral binding: /start and checkout ------------- *)
\* /start commands in a behaviour
MaxStarts == 3

\* orders the user creates in a behaviour
MaxOrders == 2

UserOrders == 1..MaxOrders

\* context.args of /start: nothing, or one argument, kept as what
\* startswith("ref_") and [4:] read of it; the code after the prefix can be
\* empty, the account's, or one that names no account
StartArgs ==
  {<< >>} \cup { <<[prefix |-> "ref_", rest |-> c]>> : c \in {"", AccountCode, "X"} }
          \cup { <<[prefix |-> "other", rest |-> AccountCode]>> }

\* start_command without the test of the stored value at line 60
start_command_Rebinds(user, args) ==
  LET referral_code == IF Len(args) > 0 /\ args[1].prefix = "ref_"
                       THEN args[1].rest ELSE "none"
  IN IF ~user.exists
     THEN NewUser(referral_code)
     ELSE IF Truthy(referral_code)
          THEN [user EXCEPT !.referred_by = referral_code]
          ELSE user

\* handlers/start.py, lines 25-62: referral_code is the text after "ref_" or
\* None; a new user is inserted with it, an existing user's referred_by is set
\* only when the code is true and the stored value is not
start_command(user, args) ==
  LET referral_code == IF Len(args) > 0 /\ args[1].prefix = "ref_"
                       THEN args[1].rest ELSE "none"
  IN IF ~user.exists
     THEN NewUser(referral_code)
     ELSE IF Truthy(referral_code) /\ ~Truthy(user.referred_by)
          THEN [user EXCEPT !.referred_by = referral_code]
          ELSE user

StartCommand(args) ==
  /\ call.n < MaxStarts
  /\ users' = start_command(users, args)
  /\ call' = [call EXCEPT !.n = @ + 1,
                          !.last = [op |-> "start_command", args |-> args, user |-> users]]
  /\ UNCHANGED <<orders, affiliate, mock_mode, ex, applied, paidgen>>

\* handlers/payment.py, lines 69-104, run without an await from the read of
\* the user to the return of create_order: the user's code is passed on unless
\* one of the user's orders is completed
confirm_order_affiliate_code(user, rows) ==
  IF Truthy(user.referred_by) /\ ~\E o \in DOMAIN rows : rows[o].status = "completed"
  THEN user.referred_by
  ELSE "none"

\* lines 123-133: the order of a free product is set to paid at once
ConfirmOrder(o, product_id) ==
  /\ users.exists
  /\ orders[o] = NoRow
  /\ \A p \in UserOrders : p < o => orders[p] # NoRow
  /\ LET affiliate_code == confirm_order_affiliate_code(users, orders)
         created == create_order(product_id, TRUE, affiliate_code)
         row == IF created.ok /\ created.row.amount_usd = 0
                THEN [created.row EXCEPT !.status = "paid"]
                ELSE created.row
     IN /\ orders' = [orders EXCEPT ![o] = row]
        /\ call' = [call EXCEPT !.last = [op |-> "confirm_order", o |-> o,
                                          affiliate_code |-> affiliate_code,
                                          ok |-> created.ok]]
  /\ UNCHANGED <<affiliate, mock_mode, ex, applied, paidgen, users>>

\* the provider's notification of the payment (process_payment_webhook)
OrderPaid(o) ==
  /\ orders[o].status = "pending_payment"
  /\ orders' = [orders EXCEPT ![o].status = "paid", ![o].payment_id = TRUE]
  /\ UNCHANGED <<affiliate, mock_mode, ex, applied, paidgen, call, users>>

\* process_paid_order, lines 79-89: the run claims the paid order
OrderClaimed(o) ==
  /\ orders[o].status = "paid"
  /\ orders' = [orders EXCEPT ![o].status = "generating"]
  /\ UNCHANGED <<affiliate, mock_mode, ex, applied, paidgen, call, users>>

\* process_paid_order, lines 361-383: the run that generated the report
\* stores it, raises the account's totals when the row has a code, a
\* commission and an amount, and commits the completed status
OrderCompleted(o) ==
  /\ orders[o].status = "generating"
  /\ orders' = [orders EXCEPT ![o].status = "completed", ![o].ai_report = TRUE]
  /\ affiliate' = IF /\ Truthy(orders[o].affiliate_code)
                     /\ orders[o].commission_amount # 0
                     /\ orders[o].amount_usd # 0
                     /\ get_affiliate_by_code(orders[o].affiliate_code)
                  THEN update_affiliate_sales(affiliate, orders[o].amount_usd,
                                              orders[o].commission_amount)
                  ELSE affiliate
  /\ UNCHANGED <<mock_mode, ex, applied, paidgen, call, users>>

ReferralInit ==
  /\ orders = [o \in UserOrders |-> NoRow]
  /\ affiliate \in {[total_sales |-> sales, total_commission |-> 0,
                      current_tier |-> TierOf(sales)] : sales \in {0, BONUS_THRESHOLD - 1}}
  /\ mock_mode = FALSE
  /\ ex = [e \in Execs |-> IdleExec]
  /\ applied = [o \in Orders |-> 0]
  /\ paidgen = [o \in Orders |-> 0]
  /\ call = NoCall
  /\ users = NoUser

ReferralNext ==
  \/ \E args \in StartArgs : StartCommand(args)
  \/ \E o \in UserOrders, p \in OrderProducts : ConfirmOrder(o, p)
  \/ \E o \in UserOrders : OrderPaid(o)
  \/ \E o \in UserOrders : OrderClaimed(o)
  \/ \E o \in UserOrders : OrderCompleted(o)

ReferralSpec == ReferralInit /\ [][ReferralNext]_vars

(* ------------------------------ properties ----------------------------- *)
\* how many times a call was made by an execution
Count(log, event) == Cardinality({i \in 1..Len(log) : log[i] = event})

\* the calls process_paid_order makes itself; the notification of the
\* free-checkout task wrapper belongs to the caller
UserNotifications(log) == Count(log, "notify:free") + Count(log, "notify:paid")

RefundCalls(log) == Count(log, "refund:bazi") + Count(log, "refund:gen")

AuditEntries(log) == Count(log, "audit:success") + Count(log, "audit:failed")

Returned(e) == ex[e].pc \in {"wrap", "done"}

C2_OneClaimPerPayment ==
  \A e, f \in Execs :
    (e # f /\ ex[e].passed /\ ex[f].passed /\ ex[e].oid = ex[f].oid /\ ex[e].seen # 0)
    => ex[e].seen # ex[f].seen

\* C3: with the payment provider's webhook as the only trigger (live mode),
\* an order is fulfilled at most once: at most one execution ever passes the
\* claim for it, however often the paid notification is delivered.
C3_FulfilledAtMostOnce ==
  ~mock_mode =>
    \A o \in Orders : Cardinality({e \in Execs : ex[e].oid = o /\ ex[e].passed}) <= 1

\* C4: completed and refunded are never left, and failed is left only for
\* refunded.
C4_TerminalNeverBackward ==
  [][\A o \in Orders :
       /\ orders[o].status \in {"completed", "refunded"}
            => orders'[o].status = orders[o].status
       /\ orders[o].status = "failed"
            => orders'[o].status \in {"failed", "refunded"}]_vars

EnrichmentFailed(e) == ex[e].pc = "done" /\ ex[e].enrich_result = "none"

MissingInput(e) ==
  /\ ex[e].pc = "done" /\ ex[e].passed
  /\ get_product(orders[ex[e].oid].product_id).requires_bazi
  /\ ~orders[ex[e].oid].birthday

\* C8: with the birth date missing, the execution makes no enrichment and no
\* generation call, marks the order failed and, the amount being non-zero,
\* calls the refund.
C8_MissingInputRefunded ==
  \A e \in Execs :
    (MissingInput(e) /\ ex[e].ret # "raised")
    => /\ Count(ex[e].log, "enrich") = 0
       /\ Count(ex[e].log, "gen") = 0
       /\ ex[e].left \in {"failed", "refunded"}
       /\ (orders[ex[e].oid].amount_usd # 0 => RefundCalls(ex[e].log) >= 1)

\* the execution is over and the generation call had yielded no content
GenerationFailed(e) == ex[e].pc = "done" /\ ex[e].gen_result = "none"

\* what C9 states apart from the final status
GenerationFailureCompensated(e) ==
  LET amount == orders[ex[e].oid].amount_usd IN
    /\ ex[e].ret = "false"
    /\ UserNotifications(ex[e].log) = 1
    /\ Count(ex[e].log, NotifyEvent(amount = 0)) = 1
    /\ Count(ex[e].log, "refund:gen") = (IF amount # 0 THEN 1 ELSE 0)
    /\ RefundCalls(ex[e].log) = (IF amount # 0 THEN 1 ELSE 0)
    /\ AuditEntries(ex[e].log) = (IF amount # 0 THEN 1 ELSE 0)
    /\ Count(ex[e].log, "commission") = 0

C10_TwoOutcomes ==
  \A e \in Execs :
    (Returned(e) /\ ex[e].passed)
    => \/ ex[e].ret = "true" /\ ex[e].left = "completed"
       \/ /\ ex[e].left \in {"failed", "refunded"}
          /\ (orders[ex[e].oid].amount_usd # 0 => RefundCalls(ex[e].log) >= 1)

\* C11: no execution calls the refund for an order whose amount is zero,
\* whichever failure path it takes.
C11_NoRefundForFreeOrder ==
  \A e \in Execs :
    (ex[e].pc # "idle" /\ orders[ex[e].oid].amount_usd = 0)
    => RefundCalls(ex[e].log) = 0

C11_Witness ==
  \E e \in Execs :
    /\ ex[e].pc = "done" /\ orders[ex[e].oid].amount_usd = 0
    /\ ex[e].gen_result = "none" /\ ex[e].ret = "false" /\ ex[e].left = "failed"
    /\ Count(ex[e].log, "notify:free") = 1

\* C12: the message that tells the user of a paid order that the amount was
\* refunded is sent only after a refund call of the same execution returned
\* success; when the refund was refused that message is not sent and the
\* operator is notified.
C12_TruthfulRefundMessage ==
  \A e \in Execs :
    /\ \A i \in 1..Len(ex[e].log) :
         ex[e].log[i] = "notify:paid"
         => \E j \in 1..(i - 1) : ex[e].log[j] = "audit:success"
    /\ (Returned(e) /\ Count(ex[e].log, "audit:failed") > 0)
         => Count(ex[e].log, "notify:paid") = 0 /\ Count(ex[e].log, "admin") >= 1

\* C13: once an execution has committed the order as completed, it returns
\* True, leaves the order completed, and makes no refund call and no failure
\* notification, whatever happens while the report is delivered; and an
\* execution returns True only with the order left completed.
C13_DeliveryFailureKeepsCompleted ==
  \A e \in Execs :
    /\ (Returned(e) /\ Count(ex[e].log, "completed") = 1)
         => /\ ex[e].ret = "true"
            /\ ex[e].left = "completed"
            /\ RefundCalls(ex[e].log) = 0
            /\ UserNotifications(ex[e].log) = 0
    /\ (Returned(e) /\ ex[e].ret = "true") => ex[e].left = "completed"

\* C14: an execution on a free order whose generation succeeds (no store call
\* raising) has passed the claim, makes no enrichment and no refund call and
\* exactly one generation call, returns True and leaves the order completed
\* with its report stored.
C14_FreeHappyPath ==
  \A e \in Execs :
    (Returned(e) /\ orders[ex[e].oid].amount_usd = 0
       /\ ex[e].gen_result = "report" /\ ex[e].ret # "raised")
    => /\ ex[e].passed
       /\ ex[e].ret = "true"
       /\ ex[e].left = "completed"
       /\ orders[ex[e].oid].status = "completed" /\ orders[ex[e].oid].ai_report
       /\ Count(ex[e].log, "enrich") = 0
       /\ RefundCalls(ex[e].log) = 0
       /\ Count(ex[e].log, "gen") = 1

C14_Witness ==
  \E e \in Execs :
    /\ ex[e].pc = "done" /\ orders[ex[e].oid].amount_usd = 0
    /\ ~orders[ex[e].oid].birthday
    /\ ex[e].ret = "true" /\ orders[ex[e].oid].status = "completed"
    /\ ex[e].log = <<"gen", "completed", "deliver">>

\* C15: when the signature does not verify, or the payload has no order id or
\* names an order without a row, process_payment_webhook returns False and
\* the orders table is as before.
C15_WebhookRejectsWithoutMutation ==
  call.last.op = "process_payment_webhook" =>
    LET c == call.last IN
      (\/ ~c.valid
       \/ c.payload.order_id = 0
       \/ c.before[c.payload.order_id] = NoRow)
      => ~c.ret /\ orders = c.before

C15_Witness ==
  /\ call.last.op = "process_payment_webhook"
  /\ ~call.last.valid
  /\ call.last.payload.order_id \in Orders
  /\ call.last.payload.status = "paid"
  /\ call.last.before[call.last.payload.order_id].status = "pending_payment"
  /\ ~call.last.ret

\* C16: in live mode refund_order returns True, and changes the order, only
\* on the endpoint's explicit success for an order with a payment id, and then
\* the order is refunded; on any other answer or without payment id it
\* returns False and the order is as before.  In mock mode it calls no
\* endpoint and, its update committed, returns True with the order refunded.
C16_RefundNeverAssumesSuccess ==
  call.last.op = "refund_order" =>
    LET c == call.last IN
      \A o \in Orders :
        IF mock_mode
        THEN /\ ~c.remote_called
             /\ c.dbok => (c.ret /\ orders[o].status = "refunded")
        ELSE /\ c.ret => /\ c.remote = "success"
                         /\ c.before.payment_id
                         /\ c.remote_called
                         /\ orders[o].status = "refunded"
             /\ (c.remote # "success" \/ ~c.before.payment_id)
                  => (~c.ret /\ orders[o] = c.before)
             /\ orders[o] # c.before => c.ret

C16_Witness ==
  /\ call.last.op = "refund_order"
  /\ ~mock_mode
  /\ call.last.remote = "timeout"
  /\ call.last.before.payment_id
  /\ call.last.before.status = "failed"
  /\ ~call.last.ret
  /\ \A o \in Orders : orders[o].status = "failed"

\* C17: prior sales of exactly 1000.00, 3000.00 and 5000.00 get the rate of
\* the band that starts there (25, 30 and 35 per cent), and every sales value
\* lies in exactly one band.
C17_TierBoundaryDeterminism ==
  call.last.op = "calculate_commission" =>
    LET c == call.last IN
      /\ c.total_sales = 100000 => c.result.commission_rate = 25
      /\ c.total_sales = 300000 => c.result.commission_rate = 30
      /\ c.total_sales = 500000 => c.result.commission_rate = 35
      /\ Cardinality({t \in 1..Len(COMMISSION_TIERS) : InTier(t, c.total_sales)}) = 1

\* C18: the bonus is the flat amount exactly when the prior sales are below
\* the threshold and the prior sales plus the order amount are at or above
\* it, and zero otherwise; the total commission is amount x rate + bonus
\* (in hundredths of a cent).
C18_BonusCrossingRule ==
  call.last.op = "calculate_commission" =>
    LET c == call.last IN
      /\ c.result.bonus =
           (IF c.total_sales < BONUS_THRESHOLD
               /\ BONUS_THRESHOLD <= c.total_sales + c.order_amount
            THEN BONUS_AMOUNT ELSE 0)
      /\ c.result.total_commission =
           c.order_amount * c.result.commission_rate + 100 * c.result.bonus

C18_Witness ==
  /\ call.last.op = "calculate_commission"
  /\ call.last.total_sales < BONUS_THRESHOLD
  /\ call.last.result.bonus = BONUS_AMOUNT
  /\ call.last.result.total_commission > 100 * BONUS_AMOUNT

\* C19: create_order for a user bound to an existing account succeeds and
\* adds a pending_payment order whose commission is the one
\* calculate_commission gives for the account's sales at that time.
C19_FrozenCommission ==
  (call.last.op = "create_order" /\ call.last.affiliate_found) =>
    LET c == call.last IN
      /\ c.ok
      /\ c.row.status = "pending_payment"
      /\ c.row.commission_amount =
           RoundCents(calculate_commission(c.total_sales, c.row.amount_usd).total_commission)

NoExecutionUnderWay == \A f \in Execs : ex[f].pc \in {"idle", "done"}

\* C21: an order that was claimed (generating) reaches completed, failed or
\* refunded once the executions have returned: no return path of
\* process_paid_order, its caller included, leaves the order in generating.
C21_NoReturnLeavesGenerating ==
  \A e \in Execs :
    (ex[e].pc = "done" /\ ex[e].passed /\ NoExecutionUnderWay) =>
      orders[ex[e].oid].status \in {"completed", "failed", "refunded"}

\* C22: on a terminal failure of the saga (the enrichment or the generation
\* yielded nothing) the compensation actions are each attempted whatever
\* the outcome of the others: for a paid order the refund is called and the
\* audit entry written even when the write of status failed raised, and the
\* user notification is attempted.
C22_CompensationsIndependent ==
  \A e \in Execs :
    ((EnrichmentFailed(e) \/ GenerationFailed(e)) /\ orders[ex[e].oid].amount_usd > 0)
    => /\ RefundCalls(ex[e].log) >= 1
       /\ AuditEntries(ex[e].log) >= 1
       /\ UserNotifications(ex[e].log) >= 1

\* every a in the log comes before every b
Before(log, a, b) ==
  \A i, j \in 1..Len(log) : (log[i] = a /\ log[j] = b) => i < j

\* the parts of the step ordering: when the generation call of an order
\* that requires the enrichment starts, the enrichment call has returned
\* data and the payload is committed on the order
EnrichmentBeforeGeneration(e) ==
  LET log == ex[e].log IN
    /\ Before(log, "enrich", "gen")
    /\ (ex[e].pc = "gen" \/ Count(log, "gen") > 0) =>
         (get_product(orders[ex[e].oid].product_id).requires_bazi
            => /\ Count(log, "enrich") = 1
               /\ ex[e].enrich_result = "data"
               /\ orders[ex[e].oid].bazi_data)

ContentBeforeCommission(e) == Before(ex[e].log, "completed", "commission")

CommissionBeforeDelivery(e) == Before(ex[e].log, "commission", "deliver")

AdapterCalled ==
  /\ call.last.op \in {"get_bazi_data", "generate_report"}
  /\ call.last.api_key
  /\ (call.last.op = "get_bazi_data" => call.last.payload_ok)

\* errors after which the request is made again
Retryable == {"http_5xx", "connection_error", "timeout"}

AllAttemptsRetryable ==
  \A k \in DOMAIN call.last.responses : call.last.responses[k] \in Retryable

\* after an attempt answered with a 4xx status no further attempt is made
StopsAtClientError ==
  \A k \in 1..Len(call.last.attempts) :
    call.last.attempts[k].response = "http_4xx" => Len(call.last.attempts) = k

\* C24 as stated: when every attempt fails with a retryable error, exactly 3
\* attempts are made and the call reports failure; after a 4xx response no
\* further attempt is made.
C24_RetryCountAsStated ==
  AdapterCalled =>
    /\ AllAttemptsRetryable =>
         (Len(call.last.attempts) = 3 /\ call.last.result = "none")
    /\ StopsAtClientError

\* C24, amended: when every attempt fails with a retryable error, exactly 3
\* attempts are made, after which the generation adapter reports failure and
\* the enrichment adapter reports failure with mock mode disabled and returns
\* its synthetic data with mock mode enabled; after a 4xx response no further
\* attempt is made.
C24_RetryCount ==
  AdapterCalled =>
    /\ AllAttemptsRetryable =>
         /\ Len(call.last.attempts) = 3
         /\ call.last.result =
              (IF call.last.op = "get_bazi_data" /\ mock_mode THEN "mock" ELSE "none")
    /\ StopsAtClientError

C24_Witness ==
  /\ AdapterCalled /\ call.last.op = "get_bazi_data" /\ mock_mode
  /\ call.last.responses[0] = "timeout"
  /\ call.last.responses[1] = "connection_error"
  /\ call.last.responses[2] = "http_5xx"
  /\ Len(call.last.attempts) = 3
  /\ call.last.result = "mock"

\* the base timeout the adapter of the last call is configured with
BaseTimeout ==
  IF call.last.op = "get_bazi_data" THEN BaziService_timeout ELSE call.last.base_timeout

\* C25: for each of the two adapters, with base timeout T, attempt k
\* (k = 0, 1, 2) runs with timeout T x 2^k: three attempts use T, 2T, 4T.
C25_TimeoutDoubles ==
  AdapterCalled =>
    \A k \in 1..Len(call.last.attempts) :
      call.last.attempts[k].timeout = BaseTimeout * (2 ^ (k - 1))

\* C26: for each of the two adapters, a response with HTTP 200 whose body
\* cannot be parsed is retried once more (while an attempt is left); if the
\* retry fails to parse as well, no further attempt is made and the call
\* yields no real data.
C26_ParseFailureRetriedOnce ==
  AdapterCalled =>
    LET attempts == call.last.attempts IN
      \A k \in 1..Len(attempts) :
        attempts[k].response = "bad_json" =>
          IF k > 1 /\ attempts[k - 1].response = "bad_json"
          THEN Len(attempts) = k /\ call.last.result \in {"none", "mock"}
          ELSE k < 3 => Len(attempts) > k

C28_MockSubstitution ==
  (/\ call.last.op \in {"get_bazi_data", "generate_report"}
   /\ (call.last.op = "get_bazi_data" /\ call.last.api_key) => call.last.payload_ok)
  => \/ call.last.result \in {"data", "report"}
     \/ call.last.result = (IF mock_mode THEN "mock" ELSE "none")

\* C29: calculate_commission applies the rate of the band that contains the
\* sales before the order, also when the order moves the total into another
\* band, and the commission amount is the order amount times that rate.
C29_RateFromPriorTier ==
  call.last.op = "calculate_commission" =>
    LET c == call.last IN
      \A t \in 1..Len(COMMISSION_TIERS) :
        InTier(t, c.total_sales) =>
          /\ c.result.commission_rate = COMMISSION_TIERS[t].rate
          /\ c.result.commission_amount = c.order_amount * COMMISSION_TIERS[t].rate

\* the order moved the account from one band into the next
C29_Witness ==
  /\ call.last.op = "calculate_commission"
  /\ InTier(1, call.last.total_sales)
  /\ InTier(2, call.last.total_sales + call.last.order_amount)
  /\ call.last.result.commission_rate = 20
  /\ call.last.result.commission_amount = call.last.order_amount * 20

\* C30: calculate_commission returns the prior sales plus the order amount as
\* the new cumulative sales and, as the new tier, the index of the band that
\* contains the new cumulative sales; the tier stored on the account by
\* update_affiliate_sales is the index of the band of the stored sales.
C30_NewTierFromNewSales ==
  /\ call.last.op = "calculate_commission" =>
       LET c == call.last IN
         /\ c.result.new_total_sales = c.total_sales + c.order_amount
         /\ \A t \in 1..Len(COMMISSION_TIERS) :
              InTier(t, c.result.new_total_sales) => c.result.new_tier = t
  /\ \A t \in 1..Len(COMMISSION_TIERS) :
       InTier(t, affiliate.total_sales) => affiliate.current_tier = t

\* C31: an order that stays in generating with no execution working on it
\* is eventually picked up again by a background job of the program: an
\* execution runs for it or its status is moved.
C31_StuckOrderReprocessed ==
  \A o \in Orders :
    (orders[o].status = "generating" /\ NoExecutionUnderWay)
      ~> (orders[o].status # "generating" \/ ~NoExecutionUnderWay)

\* C32 as stated: once a user's referred_by is not NULL, no /start changes or
\* clears it.
C32_BoundOnceAsStated ==
  [][users.referred_by # "none" => users'.referred_by = users.referred_by]_vars

\* C32: once a user's referred_by is a referral code (not NULL and not the
\* empty text), no /start changes or clears it, with the same code, another
\* code or none.
C32_BoundOnce ==
  [][Truthy(users.referred_by) => users'.referred_by = users.referred_by]_vars

\* a /start carrying another code reached a user who was bound, and the
\* binding is the one the user had
C32_Witness ==
  /\ call.last.op = "start_command"
  /\ Truthy(call.last.user.referred_by)
  /\ Len(call.last.args) > 0
  /\ call.last.args[1].prefix = "ref_"
  /\ Truthy(call.last.args[1].rest)
  /\ call.last.args[1].rest # call.last.user.referred_by
  /\ users.referred_by = call.last.user.referred_by

\* the longest the retry loop of the generation client can last when no
\* attempt outlasts its own timeout: the three timeouts and the two pauses
WorstCaseDuration(T) == (T + 2 * T + 4 * T) + (1 + 2)

\* C33: for every base timeout and configured total timeout, the budget
\* around the generation call is at least the worst-case duration of the
\* client's retry loop, (T + 2T + 4T) plus the pauses 1 + 2; the attempts made
\* never need more than that, so the budget elapses only when time beyond the
\* attempts' own timeouts and pauses exceeds the margin.
C33_BudgetCoversRetryLoop ==
  call.last.op = "wait_for_generate_report" =>
    LET c == call.last
        loop == Elapsed(c.attempts, Len(c.attempts), 0)
    IN /\ c.budget >= WorstCaseDuration(c.base_timeout)
       /\ loop <= WorstCaseDuration(c.base_timeout)
       /\ c.result = "timeout" =>
            c.needed - loop > c.budget - WorstCaseDuration(c.base_timeout)

\* three attempts of base timeout 60 all ran to their timeouts under a
\* configured total below the loop's duration, and the budget held
C33_Witness ==
  /\ call.last.op = "wait_for_generate_report"
  /\ call.last.base_timeout = 60
  /\ call.last.configured_total_timeout < WorstCaseDuration(60)
  /\ Len(call.last.attempts) = 3
  /\ \A i \in 1..3 : call.last.attempts[i].response = "timeout"
  /\ call.last.needed = WorstCaseDuration(60)
  /\ call.last.needed <= call.last.budget
  /\ call.last.result = "none"

\* the rate a call returns is at least the rate of every smaller sales value
RateMonotone ==
  call.last.op = "calculate_commission" =>
    \A s \in SalesGrid :
      s <= call.last.total_sales => RateOf(s) <= call.last.result.commission_rate

\* the tier a finished update_affiliate_sales left on the account is at least
\* the tier of every smaller sales value
StoredTierMonotone ==
  (call.n > 0 /\ \A h \in Processes : call.upd[h].pc = "idle") =>
    \A s \in SalesGrid :
      s <= affiliate.total_sales => TierOf(s) <= affiliate.current_tier

\* C34: the commission rate of calculate_commission and the tier
\* update_affiliate_sales stores never go down as the cumulative sales go up,
\* the sales values between the bands (1000.00-1000.99, 3000.00-3000.99,
\* 5000.00-5000.99) included.
C34_RateAndTierMonotone == RateMonotone /\ StoredTierMonotone

\* successful refunds of the order over all the executions
SuccessfulRefunds(o) ==
  LET RECURSIVE Sum(_)
      Sum(S) == IF S = {} THEN 0
                ELSE LET e == CHOOSE x \in S : TRUE
                     IN Count(ex[e].log, "audit:success") + Sum(S \ {e})
  IN Sum({e \in Execs : ex[e].oid = o})

\* C35: whatever payment notifications arrive and executions run, a step that
\* calls the refund operation for an order finds the order not yet refunded,
\* and the refund has succeeded at most once for the order after it.
C35_AtMostOneRefund ==
  [][\A e \in Execs :
       RefundCalls(ex'[e].log) > RefundCalls(ex[e].log) =>
         /\ orders[ex[e].oid].status # "refunded"
         /\ SuccessfulRefunds(ex[e].oid)' <= 1]_vars

\* the user's orders whose frozen commission includes the one-time bonus (no
\* commission of rate x amount alone reaches the bonus amount)
BonusOrders ==
  {o \in UserOrders : orders[o].status # "none" /\ orders[o].commission_amount >= BONUS_AMOUNT}

\* C36: for any interleaving of order creations and completions the one-time
\* bonus is in the frozen commission of at most one order and is added to the
\* account's cumulative commission at most once.
C36_BonusAtMostOnce ==
  /\ Cardinality(BonusOrders) <= 1
  /\ affiliate.total_commission < 2 * BONUS_AMOUNT

\* an order whose frozen commission includes the bonus was created
C36_BonusFrozen == BonusOrders # {}

\* the failure notifications sent to the user for one execution, by
\* process_paid_order itself and by the task that called it
FailureNotifications(log) ==
  UserNotifications(log) + Count(log, "wrap_notify:free") + Count(log, "wrap_notify:paid")

\* C37: a failed fulfillment notifies the user at most once, the
\* notifications of process_paid_order (generation-failure path and exception
\* handler) and of the free-checkout task that calls it counted together.
C37_OneFailureNotification ==
  \A e \in Execs : FailureNotifications(ex[e].log) <= 1

\* C38: for any interleaving of order creations and completions, at most one
\* completed order of the user carries a referral code.
C38_OneReferredCompletion ==
  Cardinality({o \in UserOrders :
                 orders[o].status = "completed" /\ Truthy(orders[o].affiliate_code)}) <= 1

\* C39: the generated content is stored only on a completed order, and no
\* order holds stored content together with a successful refund.
C39_ContentXorRefund ==
  \A o \in Orders :
    orders[o].ai_report =>
      /\ orders[o].status = "completed"
      /\ SuccessfulRefunds(o) = 0

====
